---- MODULE Spec2Model ----
(***************************************************************************)
(* The phase-dependency execution engine of the Duke3D upscale pipeline:   *)
(* PipelineWorkflow (src/src/pipeline/workflow.py) driving PipelineState   *)
(* (src/src/pipeline/utils/state.py) over the eleven phase objects.        *)
(***************************************************************************)
EXTENDS Integers, Sequences, FiniteSets, TLC

(***************************************************************************)
(* Bounds of the model.                                                    *)
(***************************************************************************)
\* run_phases calls per behaviour
MaxCalls == 2
\* reset_phase calls per behaviour
MaxResets == 1

(***************************************************************************)
(* Static declarations of PipelineWorkflow.                                *)
(***************************************************************************)
PHASE_ORDER ==
    << "game_files", "extract", "convert", "premultiply", "extract_alpha",
       "upscale_alpha", "upscale", "reattach_alpha", "verify", "scrub",
       "generate_mod" >>

Range(s) == { s[k] : k \in 1..Len(s) }

\* A declaration in which convert waits for upscale, which waits for convert.
PHASE_DEPENDENCIES_cyclic ==
    [ p \in Range(PHASE_ORDER) |->
        CASE p = "game_files"     -> << >>
          [] p = "extract"        -> << "game_files" >>
          [] p = "convert"        -> << "extract", "upscale" >>
          [] p = "premultiply"    -> << "convert" >>
          [] p = "extract_alpha"  -> << "premultiply" >>
          [] p = "upscale_alpha"  -> << "extract_alpha" >>
          [] p = "upscale"        -> << "convert" >>
          [] p = "reattach_alpha" -> << "upscale", "extract_alpha", "upscale_alpha" >>
          [] p = "verify"         -> << "reattach_alpha" >>
          [] p = "scrub"          -> << "reattach_alpha" >>
          [] p = "generate_mod"   -> << "scrub" >> ]

PHASE_DEPENDENCIES ==
    [ p \in Range(PHASE_ORDER) |->
        CASE p = "game_files"     -> << >>
          [] p = "extract"        -> << "game_files" >>
          [] p = "convert"        -> << "extract" >>
          [] p = "premultiply"    -> << "convert" >>
          [] p = "extract_alpha"  -> << "premultiply" >>
          [] p = "upscale_alpha"  -> << "extract_alpha" >>
          [] p = "upscale"        -> << "convert" >>
          [] p = "reattach_alpha" -> << "upscale", "extract_alpha", "upscale_alpha" >>
          [] p = "verify"         -> << "reattach_alpha" >>
          [] p = "scrub"          -> << "reattach_alpha" >>
          [] p = "generate_mod"   -> << "scrub" >> ]

\* _create_phases: self.phases maps each phase name to an instance of its class
phase_classes ==
    [ p \in Range(PHASE_ORDER) |->
        CASE p = "game_files"     -> "GameFilesPhase"
          [] p = "extract"        -> "ExtractPhase"
          [] p = "convert"        -> "ConvertPhase"
          [] p = "premultiply"    -> "PremultiplyPhase"
          [] p = "extract_alpha"  -> "ExtractAlphaPhase"
          [] p = "upscale_alpha"  -> "UpscaleAlphaPhase"
          [] p = "upscale"        -> "UpscalePhase"
          [] p = "reattach_alpha" -> "ReattachAlphaPhase"
          [] p = "verify"         -> "VerifyPhase"
          [] p = "scrub"          -> "ScrubPhase"
          [] p = "generate_mod"   -> "GenerateModPhase" ]

\* The attributes a phase object offers: AbstractPhase declares run() and four
\* helpers; every concrete phase class under phases/ overrides run() and adds
\* private helpers only.
AbstractPhaseMethods ==
    { "run", "_check_dependencies", "_validate_inputs", "_validate_outputs",
      "_update_state" }

\* phases/generate_mod.py: a component implementing the run() contract.
GenerateModPhaseMethods == AbstractPhaseMethods

MethodsOf(p) ==
    IF p = "generate_mod" THEN GenerateModPhaseMethods ELSE AbstractPhaseMethods

(***************************************************************************)
(* Status strings.                                                         *)
(***************************************************************************)
Completed == "completed"

\* f"failed: {str(e)}"
FailedStatus(msg) == "failed: " \o msg

\* AttributeError raised by the lookup of a method the object does not have
AttributeErrorMsg(p, method) ==
    "'" \o phase_classes[p] \o "' object has no attribute '" \o method \o "'"

\* PipelineState.get(key, default)
StateGet(st, key, default) == IF key \in DOMAIN st THEN st[key] ELSE default

\* PipelineState.__setitem__ (the save that follows rewrites the record)
StateSet(st, key, value) ==
    [ k \in DOMAIN st \cup {key} |-> IF k = key THEN value ELSE st[k] ]

\* A deletion that also drops the entries of the phases depending on key.
StateDel_with_dependents(st, key) ==
    [ k \in { q \in DOMAIN st \ {key} :
                 key \notin Range(PHASE_DEPENDENCIES[q]) } |-> st[k] ]

\* PipelineState.__delitem__
StateDel(st, key) == [ k \in DOMAIN st \ {key} |-> st[k] ]

EmptyState == [ k \in {} |-> Completed ]

(***************************************************************************)
(* validate_phase_dependencies                                             *)
(***************************************************************************)
RECURSIVE Join(_, _)
Join(strs, sep) ==
    IF strs = << >> THEN ""
    ELSE IF Len(strs) = 1 THEN strs[1]
    ELSE strs[1] \o sep \o Join(Tail(strs), sep)

\* a variant that only asks whether the dependency has an entry
missing_deps_absent_only(phase_name, st) ==
    SelectSeq(PHASE_DEPENDENCIES[phase_name], LAMBDA dep : dep \notin DOMAIN st)

\* the inner loop: the dependencies of one phase that are not "completed"
missing_deps(phase_name, st) ==
    SelectSeq(PHASE_DEPENDENCIES[phase_name],
              LAMBDA dep : dep \notin DOMAIN st \/ st[dep] # Completed)

\* a variant that drops a phase with unmet dependencies instead of reporting it
RECURSIVE validate_phase_dependencies_dropping(_, _)
validate_phase_dependencies_dropping(phase_names_arg, st) ==
    IF phase_names_arg = << >>
    THEN [ valid_phases |-> << >>, missing_dependencies |-> << >> ]
    ELSE LET phase_name == Head(phase_names_arg)
             rest == validate_phase_dependencies_dropping(Tail(phase_names_arg), st)
         IN  IF phase_name \notin DOMAIN phase_classes
                  \/ missing_deps(phase_name, st) # << >>
             THEN rest
             ELSE [ rest EXCEPT !.valid_phases = << phase_name >> \o @ ]

RECURSIVE validate_phase_dependencies(_, _)
validate_phase_dependencies(phase_names_arg, st) ==
    IF phase_names_arg = << >>
    THEN [ valid_phases |-> << >>, missing_dependencies |-> << >> ]
    ELSE LET phase_name == Head(phase_names_arg)
             rest == validate_phase_dependencies(Tail(phase_names_arg), st)
         IN  IF phase_name \notin DOMAIN phase_classes
             THEN rest
             ELSE IF missing_deps(phase_name, st) # << >>
             THEN [ rest EXCEPT !.missing_dependencies =
                      << phase_name \o ": missing "
                           \o Join(missing_deps(phase_name, st), "/") >> \o @ ]
             ELSE [ rest EXCEPT !.valid_phases = << phase_name >> \o @ ]

(***************************************************************************)
(* State.                                                                  *)
(***************************************************************************)
VARIABLES
    state,           \* PipelineState.state: phase name -> status string
    pre,             \* the value of state when the last run_phases call was made
    summary,         \* workflow_summary.json: phase name -> status, or no file
    pc,              \* "idle", or "loop" while run_phases iterates valid_phases
    phase_names,     \* run_phases: the resolved phase_names argument
    dry_run,         \* run_phases: dry_run argument
    skip_completed,  \* run_phases: skip_completed argument
    valid_phases,    \* run_phases: the list the loop iterates
    idx,             \* run_phases: position of the loop in valid_phases
    ran,             \* phases handed to _run_single_phase by this call
    attempted,       \* <<phase, method>> calls this call made on phase objects
    outcome,         \* how the last operation on the workflow ended
    ncalls,          \* run_phases calls so far
    nresets,         \* reset_phase calls so far
    retry_args,      \* retry_on_exception: the decorator's arguments
    attempt,         \* wrapper: the loop variable of "for attempt in range"
    actual_delay,    \* wrapper: actual_delay
    last_exception,  \* wrapper: last_exception
    invocations,     \* what each call of the wrapped func did, in order
    sleeps,          \* the arguments of the time.sleep calls, in order
    wrapper,         \* how the call of the decorated function stands
    model_name,      \* UpscalePhase.model_name
    model_file,      \* whether models/<model_name>.pth exists
    textures,        \* what files/temp/20_convert/textures holds for run()
    steps,           \* the steps of UpscalePhase.run executed, in order
    image,           \* the raster a pixel routine is given
    tolerance,       \* pink_tolerance / magenta_tolerance, in hundredths
    applied,         \* the pixel routine that has been applied to image
    output,          \* what that routine wrote or returned
    fs,              \* directory -> its files (name -> raster), or Missing
    model_inputs,    \* the rasters handed to upsampler.enhance
    written,         \* phase -> the <<directory, file name>> it has written
    phase_result,    \* phase -> how its last run() ended
    scale,           \* UpscaleAlphaPhase.scale
    alpha_src,       \* the alpha raster _upscale_alpha_image opens
    alpha_up,        \* the raster _upscale_alpha_image saves
    rgb_src,         \* the colour raster _combine_rgb_alpha opens
    rgba_out,        \* the raster _combine_rgb_alpha saves
    record,          \* what the state file holds
    memory,          \* process -> the self.state of its PipelineState
    proc,            \* process -> whether it has started, runs or is dead
    store_op,        \* the last operation on a PipelineState and how it ended
    persisted,       \* the <<process, key>> entries a save has put on file
    nops             \* PipelineState operations so far

workflow_vars == << pre, summary, pc, phase_names, dry_run, skip_completed,
                    valid_phases, idx, ran, attempted, outcome, ncalls,
                    nresets >>

retry_vars == << retry_args, attempt, actual_delay, last_exception,
                 invocations, sleeps, wrapper >>

upscale_vars == << model_name, model_file, textures, steps >>

pixel_vars == << image, tolerance, applied, output >>

chain_vars == << fs, model_inputs, written, phase_result >>

resize_vars == << scale, alpha_src, alpha_up, rgb_src, rgba_out >>

store_vars == << record, memory, proc, store_op, persisted, nops >>

vars == << state, workflow_vars, retry_vars, upscale_vars, pixel_vars,
           chain_vars, resize_vars, store_vars >>

NoError == [ type |-> "None", phase |-> "None", message |-> << >>, cause |-> "None" ]

\* PipelineError(message, phase, cause): cause holds str(e) of the exception
\* that was caught, message the lines of the error message
PipelineError(message, phase, cause) ==
    [ type |-> "PipelineError", phase |-> phase, message |-> message,
      cause |-> cause ]

\* The phase_names arguments the callers pass: None (all phases), or a list.
DefaultRequest == [ is_none |-> TRUE, list |-> << >> ]

ListRequest(names) == [ is_none |-> FALSE, list |-> names ]

Requests ==
    { DefaultRequest,
      ListRequest(<< "game_files" >>),
      ListRequest(<< "upscale" >>),
      ListRequest(<< "reattach_alpha" >>),
      ListRequest(<< "verify" >>),
      ListRequest(<< "scrub", "verify" >>),
      ListRequest(<< "generate_mod" >>),
      ListRequest(<< "setup" >>) }

\* The phase names handed to reset_phase.
ResetTargets == { "game_files", "upscale", "verify" }

\* What validate() and execute() of a phase object do when they exist.
PhaseBehaviours == { "ok", "invalid", "validate_raises", "execute_raises" }

\* The records state.json may hold when the process starts: the phases of a
\* leading part of PHASE_ORDER recorded "completed" by earlier invocations.
LoadableStates ==
    { [ p \in Range(SubSeq(PHASE_ORDER, 1, k)) |-> Completed ] :
        k \in 0..Len(PHASE_ORDER) }

NoSummary == [ k \in {} |-> Completed ]

\* No decorated function is being called.
NoException == [ cls |-> "None", id |-> 0, msg |-> "None" ]

NoRetryArgs ==
    [ max_attempts |-> 0, delay |-> 0, strategy |-> "fixed",
      backoff_factor |-> 0, exceptions |-> {} ]

IdleWrapper == [ kind |-> "idle", value |-> "None", exc |-> NoException ]

IdleRetry ==
    /\ retry_args = NoRetryArgs
    /\ attempt = 0
    /\ actual_delay = 0
    /\ last_exception = NoException
    /\ invocations = << >>
    /\ sleeps = << >>
    /\ wrapper = IdleWrapper

\* No UpscalePhase has been built.
IdleUpscale ==
    /\ model_name = "None"
    /\ model_file = FALSE
    /\ textures = "missing"
    /\ steps = << >>

\* No pixel routine has been given a raster.
NoImage == [ mode |-> "None", size |-> << 0, 0 >>, pixels |-> << >> ]

NoOutput == [ kind |-> "none", image |-> NoImage, flagged |-> FALSE ]

IdlePixel ==
    /\ image = NoImage
    /\ tolerance = 0
    /\ applied = "none"
    /\ output = NoOutput

\* No stage directory exists and no phase has run.
Missing == [ exists |-> FALSE, files |-> [ n \in {} |-> NoImage ] ]

IdleChain ==
    /\ fs = [ d \in {} |-> Missing ]
    /\ model_inputs = {}
    /\ written = [ p \in Range(PHASE_ORDER) |-> {} ]
    /\ phase_result = [ p \in Range(PHASE_ORDER) |-> "none" ]

\* No alpha raster is being resized or recombined.
IdleResize ==
    /\ scale = 0
    /\ alpha_src = NoImage
    /\ alpha_up = NoImage
    /\ rgb_src = NoImage
    /\ rgba_out = NoImage

\* No state file and no PipelineState object.
AbsentRecord == [ kind |-> "absent", value |-> EmptyState ]

NoStoreOp ==
    [ proc |-> 0, op |-> "none", key |-> "None", save |-> "none",
      result |-> "none" ]

IdleStore ==
    /\ record = AbsentRecord
    /\ memory = << >>
    /\ proc = << >>
    /\ store_op = NoStoreOp
    /\ persisted = {}
    /\ nops = 0

\* The workflow object has been built and no operation called on it.
IdleWorkflow ==
    /\ pre = state
    /\ summary = NoSummary
    /\ pc = "idle"
    /\ phase_names = << >>
    /\ dry_run = FALSE
    /\ skip_completed = TRUE
    /\ valid_phases = << >>
    /\ idx = 1
    /\ ran = << >>
    /\ attempted = << >>
    /\ outcome = [ kind |-> "none", error |-> NoError ]
    /\ ncalls = 0
    /\ nresets = 0

Init ==
    /\ IdleRetry
    /\ IdleUpscale
    /\ IdlePixel
    /\ IdleChain
    /\ IdleResize
    /\ IdleStore
    /\ state \in LoadableStates
    /\ pre = state
    /\ summary = NoSummary
    /\ pc = "idle"
    /\ phase_names = << >>
    /\ dry_run = FALSE
    /\ skip_completed = TRUE
    /\ valid_phases = << >>
    /\ idx = 1
    /\ ran = << >>
    /\ attempted = << >>
    /\ outcome = [ kind |-> "none", error |-> NoError ]
    /\ ncalls = 0
    /\ nresets = 0

(***************************************************************************)
(* _run_single_phase: the new state, the calls made on the phase object    *)
(* and the error raised (NoError when the method returns).                 *)
(***************************************************************************)
\* a variant of the except branch that raises without recording the failure
PhaseFailedUnmarked(phase_name, st, calls, msg) ==
    [ state |-> st,
      calls |-> calls,
      error |-> PipelineError(<< "Phase " \o phase_name \o " failed: " \o msg >>,
                              phase_name, msg) ]

\* the except branch: mark failed and raise PipelineError naming the phase
PhaseFailed(phase_name, st, calls, msg) ==
    [ state |-> StateSet(st, phase_name, FailedStatus(msg)),
      calls |-> calls,
      error |-> PipelineError(<< "Phase " \o phase_name \o " failed: " \o msg >>,
                              phase_name, msg) ]

PhaseCompleted(phase_name, st, calls) ==
    [ state |-> StateSet(st, phase_name, Completed),
      calls |-> calls,
      error |-> NoError ]

\* a variant of the dry-run branch that only logs
DryRunPhaseLogOnly(phase_name, st) ==
    [ state |-> st, calls |-> << >>, error |-> NoError ]

\* the dry-run branch: no call on the phase object, the phase marked completed
DryRunPhase(phase_name, st) == PhaseCompleted(phase_name, st, << >>)

run_single_phase(phase_name, dry, behaviour, st) ==
    IF dry
    THEN DryRunPhase(phase_name, st)
    ELSE IF "validate" \notin MethodsOf(phase_name)
    THEN PhaseFailed(phase_name, st, << <<phase_name, "validate">> >>,
                     AttributeErrorMsg(phase_name, "validate"))
    ELSE IF behaviour = "validate_raises"
    THEN PhaseFailed(phase_name, st, << <<phase_name, "validate">> >>,
                     "validate raised")
    ELSE IF behaviour = "invalid"
    THEN PhaseFailed(phase_name, st, << <<phase_name, "validate">> >>,
                     "Phase validation failed for " \o phase_name)
    ELSE IF "execute" \notin MethodsOf(phase_name)
    THEN PhaseFailed(phase_name, st,
                     << <<phase_name, "validate">>, <<phase_name, "execute">> >>,
                     AttributeErrorMsg(phase_name, "execute"))
    ELSE IF behaviour = "execute_raises"
    THEN PhaseFailed(phase_name, st,
                     << <<phase_name, "validate">>, <<phase_name, "execute">> >>,
                     "execute raised")
    ELSE PhaseCompleted(phase_name, st,
                     << <<phase_name, "validate">>, <<phase_name, "execute">> >>)

(***************************************************************************)
(* run_phases: entry (dependency validation), the loop, the end.           *)
(***************************************************************************)
RECURSIVE DependencyLines(_)
DependencyLines(missing_dependencies) ==
    IF missing_dependencies = << >> THEN << >>
    ELSE << "  - " \o Head(missing_dependencies) >>
           \o DependencyLines(Tail(missing_dependencies))

run_phases(request, dry, skip) ==
    /\ pc = "idle"
    /\ ncalls < MaxCalls
    /\ LET names == IF request.is_none THEN PHASE_ORDER ELSE request.list
           v == validate_phase_dependencies(names, state)
       IN  /\ phase_names' = names
           /\ valid_phases' = v.valid_phases
           /\ IF v.missing_dependencies # << >>
              THEN /\ pc' = "idle"
                   /\ outcome' =
                        [ kind |-> "raised",
                          error |-> PipelineError(
                             << "Phase dependencies not satisfied:" >>
                                \o DependencyLines(v.missing_dependencies),
                             "None", "None") ]
              ELSE IF v.valid_phases = << >>
              THEN /\ pc' = "idle"
                   /\ outcome' = [ kind |-> "returned", error |-> NoError ]
              ELSE /\ pc' = "loop"
                   /\ outcome' = [ kind |-> "running", error |-> NoError ]
    /\ dry_run' = dry
    /\ skip_completed' = skip
    /\ idx' = 1
    /\ ran' = << >>
    /\ attempted' = << >>
    /\ ncalls' = ncalls + 1
    /\ pre' = state
    /\ UNCHANGED << state, summary, nresets >>
    /\ UNCHANGED << retry_vars, upscale_vars, pixel_vars, chain_vars >>
    /\ UNCHANGED << resize_vars, store_vars >>

\* a variant that skips every completed phase, whatever the flag says
should_skip_any_completed(phase_name, skip, st) ==
    phase_name \in DOMAIN st /\ st[phase_name] = Completed

\* the loop's test "skip if already completed"
should_skip(phase_name, skip, st) ==
    skip /\ phase_name \in DOMAIN st /\ st[phase_name] = Completed

loop_iteration ==
    /\ pc = "loop"
    /\ idx <= Len(valid_phases)
    /\ LET phase_name == valid_phases[idx] IN
       IF should_skip(phase_name, skip_completed, state)
       THEN /\ idx' = idx + 1
            /\ UNCHANGED << state, pc, ran, attempted, outcome >>
       ELSE \E r \in { run_single_phase(phase_name, dry_run, behaviour, state) :
                         behaviour \in PhaseBehaviours } :
                  /\ state' = r.state
                  /\ ran' = Append(ran, phase_name)
                  /\ attempted' = attempted \o r.calls
                  /\ IF r.error # NoError
                     THEN /\ pc' = "idle"
                          /\ outcome' = [ kind |-> "raised", error |-> r.error ]
                          /\ idx' = idx
                     ELSE /\ idx' = idx + 1
                          /\ UNCHANGED << pc, outcome >>
    /\ UNCHANGED << pre, summary, phase_names, dry_run, skip_completed,
                    valid_phases, ncalls, nresets >>
    /\ UNCHANGED << retry_vars, upscale_vars, pixel_vars, chain_vars >>
    /\ UNCHANGED << resize_vars, store_vars >>

\* _save_workflow_summary
save_workflow_summary(st) ==
    [ p \in Range(PHASE_ORDER) |-> StateGet(st, p, "not_run") ]

\* _finish_workflow, reached when the loop has gone through valid_phases
finish_workflow ==
    /\ pc = "loop"
    /\ idx > Len(valid_phases)
    /\ pc' = "idle"
    /\ outcome' = [ kind |-> "returned", error |-> NoError ]
    /\ summary' = IF dry_run THEN summary ELSE save_workflow_summary(state)
    /\ UNCHANGED << state, pre, phase_names, dry_run, skip_completed,
                    valid_phases, idx, ran, attempted, ncalls, nresets >>
    /\ UNCHANGED << retry_vars, upscale_vars, pixel_vars, chain_vars >>
    /\ UNCHANGED << resize_vars, store_vars >>

(***************************************************************************)
(* reset_phase                                                             *)
(***************************************************************************)
reset_phase(phase_name) ==
    /\ pc = "idle"
    /\ nresets < MaxResets
    /\ state' = IF phase_name \in DOMAIN state
                THEN StateDel(state, phase_name) ELSE state
    /\ nresets' = nresets + 1
    /\ outcome' = [ kind |-> "reset", error |-> NoError ]
    /\ UNCHANGED << pre, summary, pc, phase_names, dry_run, skip_completed,
                    valid_phases, idx, ran, attempted, ncalls >>
    /\ UNCHANGED << retry_vars, upscale_vars, pixel_vars, chain_vars >>
    /\ UNCHANGED << resize_vars, store_vars >>

Next ==
    \/ \E request \in Requests, dry \in BOOLEAN, skip \in BOOLEAN :
          run_phases(request, dry, skip)
    \/ loop_iteration
    \/ finish_workflow
    \/ \E phase_name \in ResetTargets : reset_phase(phase_name)

Spec == Init /\ [][Next]_vars

(***************************************************************************)
(* Properties of the orchestrator.                                         *)
(***************************************************************************)
\* a run_phases call has been made and nothing has reset a phase since
CallMade == outcome.kind \in { "running", "returned", "raised" }

\* the last run_phases call is over
CallEnded == pc = "idle" /\ outcome.kind \in { "returned", "raised" }

\* the last call was stopped by the dependency validation
RejectedForDependencies ==
    CallEnded /\ outcome.kind = "raised" /\ outcome.error.phase = "None"

\* the last call was stopped by a phase that raised
StoppedByPhase ==
    CallEnded /\ outcome.kind = "raised" /\ outcome.error.phase # "None"

AllCompleted(st) ==
    \A p \in Range(PHASE_ORDER) : p \in DOMAIN st /\ st[p] = Completed

\* position of a phase in PHASE_ORDER
Ord(p) == CHOOSE k \in 1..Len(PHASE_ORDER) : PHASE_ORDER[k] = p

\* C1: from an empty PipelineState, one call of run_phases with the default
\* request (all eleven phases, dry_run false) in which no phase raises ends
\* with every phase "completed", each executed exactly once, in PHASE_ORDER.
C1_FullRunFromEmptyCompletesAll ==
    ( /\ CallEnded
      /\ pre = EmptyState
      /\ phase_names = PHASE_ORDER
      /\ ~dry_run
      /\ outcome.error.phase = "None" )
    => /\ AllCompleted(state)
       /\ ran = PHASE_ORDER

\* C2: a call made while some requested phase has a dependency that is not
\* "completed" raises before any phase is executed and leaves PipelineState
\* as it was, also when other requested phases have their dependencies met.
C2_UnmetDependencyRejectsWholeCall ==
    ( /\ CallMade
      /\ \E p \in Range(phase_names) \cap DOMAIN phase_classes :
            \E k \in 1..Len(PHASE_DEPENDENCIES[p]) :
               StateGet(pre, PHASE_DEPENDENCIES[p][k], "absent") # Completed )
    => /\ pc = "idle"
       /\ outcome.kind = "raised"
       /\ state = pre
       /\ ran = << >>
       /\ attempted = << >>

\* C2 witness: a call rejected although some requested phases were valid.
C2_Witness ==
    /\ RejectedForDependencies
    /\ valid_phases # << >>
    /\ state = pre
    /\ state # EmptyState

\* C3: after a run of all phases failed at phase P, the same request made
\* again with skip_completed = true executes P again and executes no phase
\* whose status is "completed": P is the first phase the new call executes.
C3_ResumeReexecutesFailedPhase ==
    [][ ( /\ StoppedByPhase
          /\ phase_names = PHASE_ORDER
          /\ ncalls' = ncalls + 1
          /\ phase_names' = PHASE_ORDER
          /\ dry_run' = dry_run
          /\ skip_completed' )
        => /\ pc' = "loop"
           /\ \E k \in 1..Len(valid_phases') :
                /\ valid_phases'[k] = outcome.error.phase
                /\ \A j \in 1..(k - 1) :
                      should_skip(valid_phases'[j], skip_completed', state') ]_vars

\* C4: when a phase raises during run_phases, its status becomes
\* "failed: <message>", no other status changes, the loop stops (no later
\* phase of the request is executed) and the error raised names the phase.
C4_PhaseFailureIsFailFast ==
    [][ ( pc = "loop" /\ outcome'.kind = "raised" )
        => LET p == valid_phases[idx] IN
           /\ outcome'.error.type = "PipelineError"
           /\ outcome'.error.phase = p
           /\ DOMAIN state' = DOMAIN state \cup {p}
           /\ state'[p] = "failed: " \o outcome'.error.cause
           /\ \A q \in DOMAIN state \ {p} : state'[q] = state[q]
           /\ pc' = "idle"
           /\ ran' = Append(ran, p)
           /\ idx' = idx ]_vars

\* C4 witness: a call stopped by a failed phase while later phases of the
\* request were still waiting.
C4_Witness ==
    /\ StoppedByPhase
    /\ idx < Len(valid_phases)
    /\ ran[Len(ran)] = outcome.error.phase
    /\ state[outcome.error.phase] = "failed: " \o outcome.error.cause

\* C5: for every phase a non-dry call does not skip, the orchestrator invokes
\* the phase's run(), and a phase whose run() returns is "completed", never
\* "failed: ...".
C5_RunInvokedAndSuccessCompletes ==
    ( CallMade /\ ~dry_run )
    => \A k \in 1..Len(ran) :
          /\ << ran[k], "run" >> \in Range(attempted)
          /\ ( ~( StoppedByPhase /\ k = Len(ran) ) => state[ran[k]] = Completed )

\* the lines "  - <phase>: missing <dep>/<dep>" the rejection must hold, one per
\* requested phase with an unmet dependency, naming each unmet dependency
RECURSIVE UnmetLines(_, _)
UnmetLines(names, st) ==
    IF names = << >> THEN << >>
    ELSE LET p == Head(names)
             unmet == IF p \in DOMAIN phase_classes
                      THEN SelectSeq(PHASE_DEPENDENCIES[p],
                             LAMBDA d : StateGet(st, d, "absent") # Completed)
                      ELSE << >>
         IN  ( IF unmet = << >> THEN << >>
               ELSE << "  - " \o p \o ": missing " \o Join(unmet, "/") >> )
             \o UnmetLines(Tail(names), st)

\* C6: a request made while a dependency of a requested phase is not
\* "completed" raises a DependencyError whose message names every unmet
\* dependency of every requested phase.
C6_UnmetDependencyRaisesDependencyError ==
    RejectedForDependencies
    => /\ outcome.error.type = "DependencyError"
       /\ Tail(outcome.error.message) = UnmetLines(phase_names, pre)

\* C7: whenever the loop is about to hand a phase to _run_single_phase, every
\* declared dependency of that phase has status "completed".
C7_DependenciesCompletedWhenPhaseStarts ==
    ( /\ pc = "loop"
      /\ idx <= Len(valid_phases)
      /\ ~should_skip(valid_phases[idx], skip_completed, state) )
    => \A k \in 1..Len(PHASE_DEPENDENCIES[valid_phases[idx]]) :
          LET dep == PHASE_DEPENDENCIES[valid_phases[idx]][k] IN
          dep \in DOMAIN state /\ state[dep] = Completed

\* C7 witness: after a failed phase and a reset, a later call is about to
\* start a phase that has dependencies, in a real run.
C7_Witness ==
    /\ pc = "loop"
    /\ idx <= Len(valid_phases)
    /\ ~should_skip(valid_phases[idx], skip_completed, state)
    /\ PHASE_DEPENDENCIES[valid_phases[idx]] # << >>
    /\ ~dry_run
    /\ ncalls = 2
    /\ nresets = 1
    /\ \E p \in DOMAIN state : state[p] # Completed

\* C8: with skip_completed = true a requested phase that was "completed" when
\* the call was made is never executed and stays "completed"; with
\* skip_completed = false the loop executes it again when it reaches it.
C8_SkipCompletedHonoured ==
    CallMade
    => \A j \in 1..Len(valid_phases) :
          LET p == valid_phases[j] IN
          StateGet(pre, p, "absent") = Completed
          => IF skip_completed
             THEN /\ p \notin Range(ran)
                  /\ state[p] = Completed
             ELSE ( j < idx \/ ( StoppedByPhase /\ j = idx ) )
                     => p \in Range(ran)

\* C8 witness: a call with skip_completed = true that skipped completed phases
\* and executed another one.
C8_Witness ==
    /\ CallEnded
    /\ skip_completed
    /\ ran # << >>
    /\ \E j \in 1..(idx - 1) :
          /\ StateGet(pre, valid_phases[j], "absent") = Completed
          /\ valid_phases[j] \notin Range(ran)
          /\ state[valid_phases[j]] = Completed

\* C9: the phases of one call execute in PHASE_ORDER whatever the order of
\* the names in the request: the executed phases are in PHASE_ORDER, and no
\* phase still waiting to be executed comes before an executed one.
C9_ExecutionFollowsPhaseOrder ==
    CallMade
    => /\ \A j, k \in 1..Len(ran) : j < k => Ord(ran[j]) < Ord(ran[k])
       /\ \A j \in 1..Len(ran) :
            \A k \in (idx + 1)..Len(valid_phases) :
               ~should_skip(valid_phases[k], skip_completed, state)
               => Ord(ran[j]) < Ord(valid_phases[k])

\* C10: a call with dry_run = true makes no call on any phase object, marks
\* every phase it does not skip "completed" and changes nothing else; when
\* it returns every requested phase is "completed".
C10_DryRunMarksWithoutExecuting ==
    ( CallMade /\ dry_run )
    => /\ attempted = << >>
       /\ \A p \in Range(ran) : p \in DOMAIN state /\ state[p] = Completed
       /\ \A p \in DOMAIN phase_classes \ Range(ran) :
             StateGet(state, p, "absent") = StateGet(pre, p, "absent")
       /\ outcome.kind = "returned"
          => \A j \in 1..Len(valid_phases) :
                LET p == valid_phases[j] IN
                /\ state[p] = Completed
                /\ ~should_skip(p, skip_completed, pre) => p \in Range(ran)

\* C10 witness: a dry run that returned after marking a phase that had no
\* "completed" status before.
C10_Witness ==
    /\ CallEnded
    /\ dry_run
    /\ outcome.kind = "returned"
    /\ \E p \in Range(ran) : StateGet(pre, p, "absent") # Completed

\* C11: every run_phases call that got past the dependency validation has
\* persisted a run summary holding each phase's final status when it ends,
\* whether it returned or a phase failed.
C11_SummaryPersistedAfterEveryRun ==
    ( CallEnded /\ ~RejectedForDependencies /\ valid_phases # << >> )
    => summary = save_workflow_summary(state)

(***************************************************************************)
(* retry_on_exception.  Delays are floats in the code; the arguments used  *)
(* here are small whole numbers, on which float arithmetic is exact.       *)
(***************************************************************************)
\* the largest max_attempts argument explored
MaxAttempts == 4

\* isinstance: every class an exception of the class is an instance of
\* (IOError is the same class object as OSError)
ExceptionBases ==
    [ c \in { "RetryableError", "NonRetryableError", "PipelineError",
              "FileNotFoundError", "OSError", "RuntimeError", "ValueError",
              "TypeError" } |->
        CASE c = "RetryableError"    -> { c, "PipelineError", "Exception" }
          [] c = "NonRetryableError" -> { c, "PipelineError", "Exception" }
          [] c = "FileNotFoundError" -> { c, "OSError", "IOError", "Exception" }
          [] c = "OSError"           -> { c, "IOError", "Exception" }
          [] OTHER                   -> { c, "Exception" } ]

\* the default of the exceptions argument
DefaultExceptions == { "Exception" }

\* the exceptions argument of the decorator on UpscalePhase.run
RunExceptions == { "OSError", "IOError", "RuntimeError" }

\* the decorator arguments explored
RetryArgs ==
    [ max_attempts : 0..MaxAttempts,
      delay : { 1, 2 },
      strategy : { "fixed", "linear", "exponential" },
      backoff_factor : { 2, 3 },
      exceptions : { DefaultExceptions, RunExceptions, { "RetryableError" } } ]

\* the classes of the exceptions the wrapped function raises
RaisedClasses == { "RetryableError", "NonRetryableError", "FileNotFoundError",
                   "ValueError" }

Returned(value) == [ kind |-> "returned", value |-> value, exc |-> NoException ]

\* id tells the exception objects of different invocations apart
Raised(cls, id, msg) ==
    [ kind |-> "raised", value |-> "None",
      exc |-> [ cls |-> cls, id |-> id, msg |-> msg ] ]

\* what the n-th invocation of the wrapped function may do
FuncResults(n) ==
    { Returned("result") } \cup { Raised(c, n, "op") : c \in RaisedClasses }

\* "except exceptions as e"
is_caught(exc, exceptions) == ExceptionBases[exc.cls] \cap exceptions # {}

\* a variant that takes the loop's last pass to be the one after the last
is_last_attempt_off_by_one(att, max_attempts) == att = max_attempts

\* "if attempt == max_attempts - 1"
is_last_attempt(att, max_attempts) == att = max_attempts - 1

\* a variant whose linear step forgets the initial delay
next_delay_linear_by_factor(strategy, actual, delay, backoff_factor) ==
    CASE strategy = "exponential" -> actual * backoff_factor
      [] strategy = "linear"      -> actual + backoff_factor
      [] OTHER                    -> actual

\* the update of actual_delay after a sleep
next_delay(strategy, actual, delay, backoff_factor) ==
    CASE strategy = "exponential" -> actual * backoff_factor
      [] strategy = "linear"      -> actual + delay * backoff_factor
      [] OTHER                    -> actual

\* wrapper is entered: last_exception = None, actual_delay = delay
EnterWrapper(args) ==
    /\ retry_args = args
    /\ attempt = 0
    /\ actual_delay = args.delay
    /\ last_exception = NoException
    /\ invocations = << >>
    /\ sleeps = << >>
    /\ wrapper = [ kind |-> "running", value |-> "None", exc |-> NoException ]

\* one pass of the for loop, in which the call of func ends as result says
loop_pass(result) ==
    /\ wrapper.kind = "running"
    /\ attempt < retry_args.max_attempts
    /\ invocations' = Append(invocations, result)
    /\ IF result.kind = "returned"
       THEN /\ wrapper' = result
            /\ UNCHANGED << attempt, actual_delay, last_exception, sleeps >>
       ELSE IF is_caught(result.exc, retry_args.exceptions)
       THEN /\ last_exception' = result.exc
            /\ IF is_last_attempt(attempt, retry_args.max_attempts)
               THEN /\ wrapper' = result
                    /\ UNCHANGED << attempt, actual_delay, sleeps >>
               ELSE /\ sleeps' = Append(sleeps, actual_delay)
                    /\ actual_delay' =
                           next_delay(retry_args.strategy, actual_delay,
                                      retry_args.delay,
                                      retry_args.backoff_factor)
                    /\ attempt' = attempt + 1
                    /\ UNCHANGED wrapper
       ELSE /\ wrapper' = result
            /\ UNCHANGED << attempt, actual_delay, last_exception, sleeps >>
    /\ UNCHANGED retry_args

\* the wrapped function is called once more
call_func ==
    /\ \E result \in FuncResults(Len(invocations) + 1) : loop_pass(result)
    /\ UNCHANGED << state, workflow_vars, upscale_vars, pixel_vars,
                    chain_vars >>
    /\ UNCHANGED << resize_vars, store_vars >>

\* the loop has run out of passes: "if last_exception: raise last_exception",
\* else the wrapper returns None
loop_exhausted ==
    /\ wrapper.kind = "running"
    /\ attempt >= retry_args.max_attempts
    /\ wrapper' = IF last_exception # NoException
                  THEN [ kind |-> "raised", value |-> "None",
                         exc |-> last_exception ]
                  ELSE Returned("None")
    /\ UNCHANGED << retry_args, attempt, actual_delay, last_exception,
                    invocations, sleeps >>
    /\ UNCHANGED << state, workflow_vars, upscale_vars, pixel_vars,
                    chain_vars >>
    /\ UNCHANGED << resize_vars, store_vars >>

RetryInit ==
    /\ state = EmptyState
    /\ IdleWorkflow
    /\ IdleUpscale
    /\ IdlePixel
    /\ IdleChain
    /\ IdleResize
    /\ IdleStore
    /\ \E args \in RetryArgs : EnterWrapper(args)

RetryNext == call_func \/ loop_exhausted

RetrySpec == RetryInit /\ [][RetryNext]_vars

\* the wrapper has returned or raised
WrapperDone == wrapper.kind \in { "returned", "raised" }

\* the first n invocations all raised an exception of the retryable set
AllRetryable(n) ==
    \A i \in 1..n :
        /\ invocations[i].kind = "raised"
        /\ is_caught(invocations[i].exc, retry_args.exceptions)
        /\ ~ ("NonRetryableError" \in ExceptionBases[invocations[i].exc.cls])

RECURSIVE Pow(_, _)
Pow(b, e) == IF e = 0 THEN 1 ELSE b * Pow(b, e - 1)

\* the length the specification gives the i-th sleep
SleepLength(i) ==
    CASE retry_args.strategy = "fixed" -> retry_args.delay
      [] retry_args.strategy = "linear" ->
             retry_args.delay
               + (i - 1) * retry_args.delay * retry_args.backoff_factor
      [] OTHER ->
             retry_args.delay * Pow(retry_args.backoff_factor, i - 1)

\* C12: an operation that raises a retryable exception on its first k-1
\* invocations and succeeds on the k-th (k <= max_attempts) is invoked again
\* after each of these failures, and once it has succeeded the wrapper has
\* returned its result after exactly k invocations and k-1 sleeps, the i-th
\* sleep lasting delay (fixed), delay + (i-1)*delay*backoff_factor (linear)
\* or delay*backoff_factor^(i-1) (exponential).
C12_SuccessAfterRetryableFailures ==
    /\ ( Len(invocations) < retry_args.max_attempts
         /\ AllRetryable(Len(invocations)) )
       => wrapper.kind = "running"
    /\ ( Len(invocations) >= 1
         /\ invocations[Len(invocations)].kind = "returned"
         /\ AllRetryable(Len(invocations) - 1) )
       => /\ wrapper = Returned("result")
          /\ Len(invocations) <= retry_args.max_attempts
          /\ Len(sleeps) = Len(invocations) - 1
          /\ \A i \in 1..Len(sleeps) : sleeps[i] = SleepLength(i)

\* a success on the fourth invocation, after three sleeps, linear strategy
C12_Witness ==
    /\ wrapper = Returned("result")
    /\ Len(invocations) = 4
    /\ AllRetryable(3)
    /\ retry_args.strategy = "linear"
    /\ retry_args.delay = 2
    /\ sleeps = << 2, 2 + 2 * retry_args.backoff_factor,
                   2 + 4 * retry_args.backoff_factor >>

\* the scheduling of the wrapper: a pass of the loop that can run does run
RetryFairSpec == RetrySpec /\ WF_vars(RetryNext)

\* an operation that has raised a retryable exception on every invocation,
\* under max_attempts = n >= 1: when the wrapper is done it has invoked the
\* operation n times, slept n-1 times and raised the last exception
ExhaustedAfterAllAttempts ==
    ( retry_args.max_attempts >= 1
      /\ WrapperDone
      /\ AllRetryable(Len(invocations)) )
    => /\ Len(invocations) = retry_args.max_attempts
       /\ Len(sleeps) = retry_args.max_attempts - 1
       /\ wrapper.kind = "raised"
       /\ wrapper.exc = invocations[Len(invocations)].exc
       /\ wrapper.exc.id = retry_args.max_attempts

\* C13: if the wrapped operation raises a retryable exception on every
\* invocation, retry_on_exception with max_attempts = n >= 1 invokes it
\* exactly n times, sleeps exactly n-1 times (never after the last failure)
\* and re-raises the exception of the last invocation unchanged; the wrapper
\* always terminates.
C13_ExhaustionReraisesLastException ==
    [] ExhaustedAfterAllAttempts /\ <> WrapperDone

\* three failures under max_attempts = 3: two sleeps, the third exception
C13_Witness ==
    /\ retry_args.max_attempts = 3
    /\ wrapper.kind = "raised"
    /\ AllRetryable(3)
    /\ Len(invocations) = 3
    /\ Len(sleeps) = 2
    /\ wrapper.exc.id = 3

\* the exception of the first invocation is outside the retryable set or is
\* a NonRetryableError
FirstIsNotToBeRetried ==
    /\ Len(invocations) >= 1
    /\ invocations[1].kind = "raised"
    /\ \/ ~ is_caught(invocations[1].exc, retry_args.exceptions)
       \/ "NonRetryableError" \in ExceptionBases[invocations[1].exc.cls]

\* C14: an exception outside the retryable set, or a NonRetryableError (also
\* when the retryable set holds one of its base classes, as the default
\* (Exception,) does), propagates after exactly one invocation, with no sleep
\* and no retry.
C14_NonRetryablePropagatesAtOnce ==
    FirstIsNotToBeRetried
    => /\ Len(invocations) = 1
       /\ sleeps = << >>
       /\ wrapper = invocations[1]

(***************************************************************************)
(* UpscalePhase.run under its decorators.  The class body defines          *)
(* _download_model and _load_model twice; the second, undecorated          *)
(* definitions are the ones bound to the names and the ones modelled.      *)
(***************************************************************************)
\* the arguments of the retry decorator on run (backoff_factor by default)
RunRetryArgs ==
    [ max_attempts |-> 3, delay |-> 2, strategy |-> "exponential",
      backoff_factor |-> 2, exceptions |-> RunExceptions ]

\* utils/model.py
MODEL_URLS == { "realesrgan-x4plus", "realesrgan-x4plus-anime" }

\* the upscale.model settings explored
ModelNames == MODEL_URLS \cup { "my-model" }

\* what files/temp/20_convert/textures may hold when run() is called
TextureStates == { "missing", "empty", "no_png", "png" }

\* what the HTTP download may do: write the file, fail with an exception of
\* requests (a subclass of IOError), or leave no file behind
DownloadBehaviours == { "downloaded", "request_failed", "absent" }

\* what the construction of RealESRGANer may do
LoadBehaviours == { "ok", "RuntimeError" }

\* log_exceptions: an exception leaves as PipelineError("Error in <phase>:
\* <str(e)>", phase, cause=e)
log_exceptions(phase_name, result) ==
    IF result.kind = "raised"
    THEN Raised("PipelineError", result.exc.id,
                "Error in " \o phase_name \o ": " \o result.exc.msg)
    ELSE result

\* UpscalePhase._check_required_files
upscale_check_required_files(tex) == tex \notin { "missing", "empty" }

\* utils/model.py download_model: what it raises and whether the file exists
\* afterwards
download_model(name, file, n, download) ==
    IF file THEN [ res |-> Returned("None"), file |-> TRUE ]
    ELSE IF name \notin MODEL_URLS
    THEN [ res |-> Raised("ValueError", n, "Model URL not in URL"),
           file |-> FALSE ]
    ELSE CASE download = "downloaded" ->
                [ res |-> Returned("None"), file |-> TRUE ]
           [] download = "request_failed" ->
                [ res |-> Raised("OSError", n, "Error downloading model"),
                  file |-> FALSE ]
           [] OTHER -> [ res |-> Returned("None"), file |-> FALSE ]

\* _download_model (the second definition)
upscale_download_model(name, file, n, download) ==
    LET d == download_model(name, file, n, download)
    IN  IF d.res.kind = "returned" /\ ~ d.file
        THEN [ res |-> Raised("FileNotFoundError", n, "Model file not found"),
               file |-> FALSE ]
        ELSE d

\* _load_model (the second definition)
upscale_load_model(name, n, load) ==
    IF name \notin MODEL_URLS
    THEN Raised("ValueError", n, "Unsupported model")
    ELSE IF load = "ok" THEN Returned("upsampler")
    ELSE Raised("RuntimeError", n, "RealESRGANer failed")

\* _upscale_textures under its log_exceptions: with no PNG file it returns;
\* otherwise the first file is upscaled and progress_bar.update is called
\* with the keyword file_description, which ProgressBar.update does not
\* take, in the try block and again in its except branch
upscale_textures_result(tex, n) ==
    IF tex = "png"
    THEN log_exceptions("upscale",
             Raised("TypeError", n, "unexpected keyword argument"))
    ELSE Returned("None")

\* the body of run(): its result, the model file and the steps executed
run_body(tex, name, file, n, download, load) ==
    IF ~ upscale_check_required_files(tex)
    THEN [ res |-> Raised("NonRetryableError", n, "Missing required files"),
           file |-> file, steps |-> << >> ]
    ELSE LET d == upscale_download_model(name, file, n, download)
             l == upscale_load_model(name, n, load)
             t == upscale_textures_result(tex, n)
         IN  IF d.res.kind = "raised"
             THEN [ res |-> d.res, file |-> d.file,
                    steps |-> << "download" >> ]
             ELSE IF l.kind = "raised"
             THEN [ res |-> l, file |-> d.file,
                    steps |-> << "download", "load" >> ]
             ELSE IF t.kind = "raised"
             THEN [ res |-> t, file |-> d.file,
                    steps |-> << "download", "load", "upscale_textures" >> ]
             ELSE [ res |-> Returned("None"), file |-> d.file,
                    steps |-> << "download", "load", "upscale_textures",
                                 "update_state" >> ]

\* one pass of the retry loop around run()
run_attempt ==
    /\ \E download \in DownloadBehaviours, load \in LoadBehaviours :
          LET b == run_body(textures, model_name, model_file,
                            Len(invocations) + 1, download, load)
          IN  /\ loop_pass(b.res)
              /\ model_file' = b.file
              /\ steps' = steps \o b.steps
              /\ state' = IF b.res.kind = "returned"
                          THEN StateSet(state, "upscale", Completed)
                          ELSE state
    /\ UNCHANGED << model_name, textures >>
    /\ UNCHANGED << workflow_vars, pixel_vars, chain_vars >>
    /\ UNCHANGED << resize_vars, store_vars >>

\* the state file records the phases up to convert
ConvertedState ==
    [ p \in { "game_files", "extract", "convert" } |-> Completed ]

UpscaleInit ==
    /\ state = ConvertedState
    /\ IdleWorkflow
    /\ IdlePixel
    /\ IdleChain
    /\ IdleResize
    /\ IdleStore
    /\ EnterWrapper(RunRetryArgs)
    /\ model_name \in ModelNames
    /\ model_file \in BOOLEAN
    /\ textures \in TextureStates
    /\ steps = << >>

UpscaleNext == run_attempt

UpscaleSpec == UpscaleInit /\ [][UpscaleNext]_vars

\* what the caller of run() gets
run_result == log_exceptions("upscale", wrapper)

\* the i-th attempt of run() failed because the model file was not there
ModelMissing(i) ==
    /\ invocations[i].kind = "raised"
    /\ invocations[i].exc.msg = "Model file not found"

MaxChannel == 255

\* the default of verify.pink_tolerance and scrub.magenta_tolerance, 0.08
DefaultTolerance == 8

\* the tolerances explored; for these t * 255 is no whole number, so that
\* the code's float comparison and the exact one agree on every channel value
Tolerances == { DefaultTolerance, 50 }

Pixel(r, g, b, a) == [ r |-> r, g |-> g, b |-> b, a |-> a ]

Raster(mode, w, h, pixels) ==
    [ mode |-> mode, size |-> << w, h >>, pixels |-> pixels ]

\* one grey RGBA pixel for every channel value and every alpha
GreyInputs ==
    { Raster("RGBA", 1, 1, << Pixel(c, c, c, a) >>) :
        c \in 0..MaxChannel, a \in 0..MaxChannel }

\* channel values around the thresholds of the tolerances explored
SampleChannels == { 0, 20, 21, 127, 128, 234, 235, 255 }

SampleAlphas == { 0, 200, 255 }

SamplePixels ==
    { Pixel(r, g, b, a) : r \in SampleChannels, g \in SampleChannels,
                          b \in SampleChannels, a \in SampleAlphas }

\* the second pixel of a two-pixel raster
SecondPixels ==
    { Pixel(255, 0, 255, 0), Pixel(255, 0, 255, 200), Pixel(0, 0, 0, 0) }

SampleInputs ==
    { Raster("RGBA", 1, 1, << p >>) : p \in SamplePixels }
      \cup { Raster("RGBA", 2, 1, << p, q >>) :
               p \in SamplePixels, q \in SecondPixels }
      \cup { Raster("RGB", 1, 1, << Pixel(r, g, b, 255) >>) :
               r \in { 0, 255 }, g \in { 0, 255 }, b \in { 0, 255 } }

\* np.clip(x, 0, 255)
clip(x) == IF x < 0 THEN 0 ELSE IF x > MaxChannel THEN MaxChannel ELSE x

\* rgb * (alpha / 255.0) in float32, then astype(np.uint8), which drops the
\* fraction; for all c, a in 0..255 the float32 product has the same whole
\* part as the exact c * a / 255
premultiply_channel(c, a) ==
    IF a > 0 THEN clip((c * a) \div MaxChannel) ELSE 0

\* _premultiply_image: the raster it saves
premultiplied(img) ==
    IF img.mode = "RGBA"
    THEN [ img EXCEPT !.pixels =
             [ i \in 1..Len(img.pixels) |->
                 Pixel(premultiply_channel(img.pixels[i].r, img.pixels[i].a),
                       premultiply_channel(img.pixels[i].g, img.pixels[i].a),
                       premultiply_channel(img.pixels[i].b, img.pixels[i].a),
                       img.pixels[i].a) ] ]
    ELSE img

\* verify.py pink_mask, for one pixel
pink_mask(p, t) ==
    /\ 100 * p.r > t * MaxChannel
    /\ 100 * p.b > t * MaxChannel
    /\ 100 * p.g < (100 - t) * MaxChannel

\* _check_pink_halos: its return value
has_pink_halos(img, t) ==
    /\ img.mode = "RGBA"
    /\ LET zero_alpha == { i \in 1..Len(img.pixels) : img.pixels[i].a = 0 }
           non_zero_rgb ==
               \E i \in zero_alpha :
                   \/ 100 * img.pixels[i].r > t * MaxChannel
                   \/ 100 * img.pixels[i].g > t * MaxChannel
                   \/ 100 * img.pixels[i].b > t * MaxChannel
       IN  /\ zero_alpha # {}
           /\ non_zero_rgb
           /\ \E i \in zero_alpha : pink_mask(img.pixels[i], t)

\* scrub.py magenta_mask, for one pixel
magenta_mask(p, t) ==
    /\ 100 * p.r > MaxChannel * (100 - t)
    /\ 100 * p.b > MaxChannel * (100 - t)
    /\ 100 * p.g < MaxChannel * t

\* a variant that also blackens the visible magenta pixels
scrub_pixel_any_alpha(p, t) ==
    IF magenta_mask(p, t) THEN Pixel(0, 0, 0, p.a) ELSE p

\* rgb[combined_mask] = [0, 0, 0], for one pixel
scrub_pixel(p, t) ==
    IF magenta_mask(p, t) /\ p.a = 0 THEN Pixel(0, 0, 0, p.a) ELSE p

\* _remove_magenta_pixels: the raster it saves
scrubbed(img, t) ==
    IF img.mode = "RGBA"
    THEN IF \E i \in 1..Len(img.pixels) : magenta_mask(img.pixels[i], t)
         THEN [ img EXCEPT !.pixels =
                  [ i \in 1..Len(img.pixels) |->
                      scrub_pixel(img.pixels[i], t) ] ]
         ELSE img
    ELSE img

Saved(img) == [ kind |-> "saved", image |-> img, flagged |-> FALSE ]

Answered(flag) == [ kind |-> "returned", image |-> NoImage, flagged |-> flag ]

\* PremultiplyPhase._premultiply_image(input_path, output_path)
premultiply_image ==
    /\ applied = "none"
    /\ applied' = "premultiply_image"
    /\ output' = Saved(premultiplied(image))
    /\ UNCHANGED << image, tolerance >>
    /\ UNCHANGED << state, workflow_vars, retry_vars, upscale_vars,
                    chain_vars >>
    /\ UNCHANGED << resize_vars, store_vars >>

\* VerifyPhase._check_pink_halos(image_path)
check_pink_halos ==
    /\ applied = "none"
    /\ applied' = "check_pink_halos"
    /\ output' = Answered(has_pink_halos(image, tolerance))
    /\ UNCHANGED << image, tolerance >>
    /\ UNCHANGED << state, workflow_vars, retry_vars, upscale_vars,
                    chain_vars >>
    /\ UNCHANGED << resize_vars, store_vars >>

\* ScrubPhase._remove_magenta_pixels(input_path, output_path)
remove_magenta_pixels ==
    /\ applied = "none"
    /\ applied' = "remove_magenta_pixels"
    /\ output' = Saved(scrubbed(image, tolerance))
    /\ UNCHANGED << image, tolerance >>
    /\ UNCHANGED << state, workflow_vars, retry_vars, upscale_vars,
                    chain_vars >>
    /\ UNCHANGED << resize_vars, store_vars >>

PixelInit ==
    /\ state = EmptyState
    /\ IdleWorkflow
    /\ IdleRetry
    /\ IdleUpscale
    /\ IdleChain
    /\ IdleResize
    /\ IdleStore
    /\ \/ image \in GreyInputs /\ tolerance = DefaultTolerance
       \/ image \in SampleInputs /\ tolerance \in Tolerances
    /\ applied = "none"
    /\ output = NoOutput

PixelNext == premultiply_image \/ check_pink_halos \/ remove_magenta_pixels

PixelSpec == PixelInit /\ [][PixelNext]_vars

\* round(c * a / 255); the quotient is never half-way, 255 being odd
RoundedProduct(c, a) == (2 * c * a + MaxChannel) \div (2 * MaxChannel)

\* the channel value the specification gives a premultiplied pixel
SpecifiedChannel(c, a) ==
    IF a = 0 THEN 0 ELSE IF a = MaxChannel THEN c ELSE RoundedProduct(c, a)

\* C16: for every RGBA pixel with channel value c and alpha a in 0..255,
\* Premultiply outputs the alpha unchanged and, in each of the three colour
\* channels, 0 when a = 0, c when a = 255 and round(c*a/255) otherwise.
C16_PremultiplyRoundsProduct ==
    ( applied = "premultiply_image" /\ image.mode = "RGBA" )
    => /\ Len(output.image.pixels) = Len(image.pixels)
       /\ \A i \in 1..Len(image.pixels) :
             LET p == image.pixels[i]
                 q == output.image.pixels[i]
             IN  /\ q.a = p.a
                 /\ q.r = SpecifiedChannel(p.r, p.a)
                 /\ q.g = SpecifiedChannel(p.g, p.a)
                 /\ q.b = SpecifiedChannel(p.b, p.a)

\* the magenta region of the specification
MagentaClassified(p, t) ==
    /\ 100 * p.r > (100 - t) * MaxChannel
    /\ 100 * p.b > (100 - t) * MaxChannel
    /\ 100 * p.g < t * MaxChannel

\* C19: with tolerance t, Verify flags an image if and only if it contains a
\* pixel with alpha = 0 whose red > (1-t)*255, blue > (1-t)*255 and
\* green < t*255; so (255,0,255) with alpha 0 is flagged and an image whose
\* alpha = 0 pixels are all outside that region, as (0,0,0) is, passes.
C19_VerifyFlagsExactlyMagentaHalos ==
    applied = "check_pink_halos"
    => ( output.flagged
         <=> /\ image.mode = "RGBA"
             /\ \E i \in 1..Len(image.pixels) :
                   /\ image.pixels[i].a = 0
                   /\ MagentaClassified(image.pixels[i], tolerance) )

\* C20: Scrub sets RGB to (0,0,0) for exactly the pixels that have alpha = 0
\* and are magenta-classified (red > (1-t)*255, blue > (1-t)*255,
\* green < t*255); every other pixel, a magenta pixel with alpha > 0
\* included, and every alpha value are written to the output unchanged.
C20_ScrubBlackensOnlyTransparentMagenta ==
    applied = "remove_magenta_pixels"
    => /\ output.kind = "saved"
       /\ output.image.mode = image.mode
       /\ output.image.size = image.size
       /\ Len(output.image.pixels) = Len(image.pixels)
       /\ \A i \in 1..Len(image.pixels) :
             LET p == image.pixels[i]
                 q == output.image.pixels[i]
             IN  /\ q.a = p.a
                 /\ IF image.mode = "RGBA" /\ p.a = 0
                       /\ MagentaClassified(p, tolerance)
                    THEN q.r = 0 /\ q.g = 0 /\ q.b = 0
                    ELSE q = p

\* a transparent magenta pixel blackened next to a visible one left alone
C20_Witness ==
    /\ applied = "remove_magenta_pixels"
    /\ tolerance = DefaultTolerance
    /\ image.pixels = << Pixel(255, 0, 255, 0), Pixel(255, 0, 255, 200) >>
    /\ output.image.pixels = << Pixel(0, 0, 0, 0), Pixel(255, 0, 255, 200) >>

(***************************************************************************)
(* The stage directories and the run() methods that read and write them.   *)
(* A directory is Missing or holds files, each a raster under its name.    *)
(* run() is the entry point of a phase (base.py); it is admitted here once *)
(* the declared dependencies of the phase are completed in the state, as   *)
(* validate_phase_dependencies requires.                                   *)
(***************************************************************************)
CONVERT_DIR == "files/temp/20_convert/textures"

PREMULTIPLY_DIR == "files/temp/21_premultiply/textures"

ALPHA_EXTRACT_DIR == "files/temp/22_alpha_extract"

ALPHA_UPSCALE_DIR == "files/temp/23_alpha_upscale"

UPSCALE_DIR == "files/temp/30_upscale"

UPSCALE_TEXTURES_DIR == "files/temp/30_upscale/textures"

REATTACH_DIR == "files/temp/31_reattach/textures"

OUTPUT_REATTACH_DIR == "files/output/31_reattach/textures"

SCRUB_DIR == "files/output/32_scrub/textures"

StageDirs ==
    { CONVERT_DIR, PREMULTIPLY_DIR, ALPHA_EXTRACT_DIR, ALPHA_UPSCALE_DIR,
      UPSCALE_DIR, UPSCALE_TEXTURES_DIR, REATTACH_DIR, OUTPUT_REATTACH_DIR,
      SCRUB_DIR }

\* the directories the _check_required_files of a phase looks into, which
\* are the ones its run() reads
ReadDirs(p) ==
    CASE p = "premultiply"    -> { CONVERT_DIR }
      [] p = "extract_alpha"  -> { PREMULTIPLY_DIR }
      [] p = "upscale_alpha"  -> { ALPHA_EXTRACT_DIR }
      [] p = "upscale"        -> { CONVERT_DIR }
      [] p = "reattach_alpha" -> { UPSCALE_TEXTURES_DIR, ALPHA_UPSCALE_DIR }
      [] p = "verify"         -> { OUTPUT_REATTACH_DIR }
      [] p = "scrub"          -> { OUTPUT_REATTACH_DIR }
      [] OTHER                -> {}

\* the directories the run() of a phase writes its files to
WriteDirs(p) ==
    CASE p = "premultiply"    -> { PREMULTIPLY_DIR }
      [] p = "extract_alpha"  -> { ALPHA_EXTRACT_DIR }
      [] p = "upscale_alpha"  -> { ALPHA_UPSCALE_DIR }
      [] p = "upscale"        -> { UPSCALE_DIR }
      [] p = "reattach_alpha" -> { REATTACH_DIR }
      [] p = "scrub"          -> { SCRUB_DIR }
      [] OTHER                -> {}

\* the file names explored; PngNames are those that end in ".png"
PngNames == { "a.png", "b.png" }

FileNames == PngNames \cup { "notes.txt" }

\* upscale.scale, by default
DefaultScale == 4

\* the pixels of the converted textures explored: the transparent key
\* colour, a half-transparent and an opaque pixel
ChainPixels ==
    { Pixel(255, 0, 255, 0), Pixel(200, 100, 50, 128), Pixel(10, 20, 30, 255) }

NoFiles == [ n \in {} |-> NoImage ]

Dir(files) == [ exists |-> TRUE, files |-> files ]

\* what the convert phase may have left in its textures directory: nothing,
\* an empty directory, or one-pixel RGBA textures and possibly another file
ConvertOutputs ==
    { Missing } \cup
    { Dir([ n \in names |->
              IF n \in PngNames
              THEN Raster("RGBA", 1, 1, << px[n] >>)
              ELSE NoImage ]) :
        names \in SUBSET FileNames, px \in [ PngNames -> ChainPixels ] }

\* os.path.exists(d) and os.listdir(d)
required_dir_ready(d) == fs[d].exists /\ DOMAIN fs[d].files # {}

\* _check_required_files of phase p
check_required_files(p) == \A d \in ReadDirs(p) : required_dir_ready(d)

\* the directory d after os.makedirs(d, exist_ok=True) and the saving of
\* files into it
saved_into(d, files) ==
    Dir([ n \in DOMAIN fs[d].files \cup DOMAIN files |->
            IF n \in DOMAIN files THEN files[n] ELSE fs[d].files[n] ])

\* the .png files of directory d
png_files(d) == DOMAIN fs[d].files \cap PngNames

\* a raster of one colour resized to w by h (Lanczos keeps one colour)
resized(img, w, h) ==
    Raster(img.mode, w, h, [ i \in 1..(w * h) |-> img.pixels[1] ])

\* img.getchannel("A"), or a solid white raster
alpha_channel(img) ==
    Raster("L", img.size[1], img.size[2],
           [ i \in 1..Len(img.pixels) |->
               IF img.mode = "RGBA"
               THEN Pixel(img.pixels[i].a, img.pixels[i].a, img.pixels[i].a,
                          MaxChannel)
               ELSE Pixel(MaxChannel, MaxChannel, MaxChannel, MaxChannel) ])

\* _upscale_alpha_image with self.scale = s
upscale_alpha_image(img, s) ==
    resized(img, img.size[1] * s, img.size[2] * s)

\* _upscale_alpha_image with the default scale
upscaled_alpha(img) == upscale_alpha_image(img, DefaultScale)

\* _upscale_image: the colour planes go through upsampler.enhance, which is
\* outside the repository and is taken to keep a one-colour raster's colour;
\* the alpha plane is resized
upscaled_image(img) ==
    resized(img, img.size[1] * DefaultScale, img.size[2] * DefaultScale)

\* A recombination that keeps the alpha raster's size.
combined_alpha_sized(rgb_img, alpha_img) ==
    Raster("RGBA", alpha_img.size[1], alpha_img.size[2],
           [ i \in 1..Len(alpha_img.pixels) |->
               Pixel(rgb_img.pixels[1].r, rgb_img.pixels[1].g,
                     rgb_img.pixels[1].b, alpha_img.pixels[i].r) ])

\* _combine_rgb_alpha
combined(rgb_img, alpha_img) ==
    LET al == IF rgb_img.size # alpha_img.size
              THEN resized(alpha_img, rgb_img.size[1], rgb_img.size[2])
              ELSE alpha_img
    IN  Raster("RGBA", rgb_img.size[1], rgb_img.size[2],
               [ i \in 1..Len(rgb_img.pixels) |->
                   Pixel(rgb_img.pixels[i].r, rgb_img.pixels[i].g,
                         rgb_img.pixels[i].b, al.pixels[i].r) ])

\* run() returns after self._update_state(p, "completed"), having saved files
\* into directory d
phase_completes(p, d, files) ==
    /\ fs' = [ fs EXCEPT ![d] = saved_into(d, files) ]
    /\ written' = [ written EXCEPT
                      ![p] = @ \cup { << d, n >> : n \in DOMAIN files } ]
    /\ state' = StateSet(state, p, Completed)
    /\ phase_result' = [ phase_result EXCEPT ![p] = Completed ]

\* run() raises before it has written anything
phase_raises(p, cls) ==
    /\ phase_result' = [ phase_result EXCEPT ![p] = cls ]
    /\ UNCHANGED << fs, written, state >>

\* the dependency gate of the workflow
admitted(p) == missing_deps(p, state) = << >>

\* a one-directory stage: check, makedirs, save, _update_state
stage_run(p, out_dir, files) ==
    /\ admitted(p)
    /\ IF check_required_files(p)
       THEN phase_completes(p, out_dir, files)
       ELSE phase_raises(p, "FileNotFoundError")
    /\ UNCHANGED model_inputs
    /\ UNCHANGED << workflow_vars, retry_vars, upscale_vars, pixel_vars >>
    /\ UNCHANGED << resize_vars, store_vars >>

\* PremultiplyPhase.run
premultiply_run ==
    /\ stage_run("premultiply", PREMULTIPLY_DIR,
                 [ n \in png_files(CONVERT_DIR) |->
                     premultiplied(fs[CONVERT_DIR].files[n]) ])

\* ExtractAlphaPhase.run
extract_alpha_run ==
    /\ stage_run("extract_alpha", ALPHA_EXTRACT_DIR,
                 [ n \in png_files(PREMULTIPLY_DIR) |->
                     alpha_channel(fs[PREMULTIPLY_DIR].files[n]) ])

\* UpscaleAlphaPhase.run
upscale_alpha_run ==
    /\ stage_run("upscale_alpha", ALPHA_UPSCALE_DIR,
                 [ n \in png_files(ALPHA_EXTRACT_DIR) |->
                     upscaled_alpha(fs[ALPHA_EXTRACT_DIR].files[n]) ])

\* UpscalePhase.run with the model downloaded and loaded: with no .png file
\* it completes; otherwise the file os.listdir gives first is handed to the
\* model, unless its output exists, the enhancement succeeds (the output is
\* saved) or raises, and in either case the call progress_bar.update(1,
\* file_description=...) ends the run with an exception
upscale_run ==
    /\ admitted("upscale")
    /\ IF ~ check_required_files("upscale")
       THEN /\ phase_raises("upscale", "PipelineError")
            /\ UNCHANGED model_inputs
       ELSE IF png_files(CONVERT_DIR) = {}
       THEN /\ phase_completes("upscale", UPSCALE_DIR, NoFiles)
            /\ UNCHANGED model_inputs
       ELSE \E n \in png_files(CONVERT_DIR), enhanced \in BOOLEAN :
              /\ phase_result' =
                     [ phase_result EXCEPT !["upscale"] = "PipelineError" ]
              /\ IF fs[UPSCALE_DIR].exists /\ n \in DOMAIN fs[UPSCALE_DIR].files
                 THEN UNCHANGED << fs, written, model_inputs >>
                 ELSE /\ model_inputs' = model_inputs \cup
                            { [ name |-> n, dir |-> CONVERT_DIR,
                                raster |-> fs[CONVERT_DIR].files[n] ] }
                      /\ IF enhanced
                         THEN /\ fs' = [ fs EXCEPT
                                          ![UPSCALE_DIR] =
                                             saved_into(UPSCALE_DIR,
                                               [ m \in { n } |->
                                                   upscaled_image(
                                                     fs[CONVERT_DIR].files[n]) ]) ]
                              /\ written' = [ written EXCEPT
                                               !["upscale"] =
                                                  @ \cup { << UPSCALE_DIR, n >> } ]
                         ELSE UNCHANGED << fs, written >>
              /\ UNCHANGED state
    /\ UNCHANGED << workflow_vars, retry_vars, upscale_vars, pixel_vars >>
    /\ UNCHANGED << resize_vars, store_vars >>

\* ReattachAlphaPhase.run
reattach_alpha_run ==
    /\ admitted("reattach_alpha")
    /\ IF check_required_files("reattach_alpha")
       THEN phase_completes("reattach_alpha", REATTACH_DIR,
                [ n \in png_files(UPSCALE_TEXTURES_DIR)
                         \cap DOMAIN fs[ALPHA_UPSCALE_DIR].files |->
                    combined(fs[UPSCALE_TEXTURES_DIR].files[n],
                             fs[ALPHA_UPSCALE_DIR].files[n]) ])
       ELSE phase_raises("reattach_alpha", "FileNotFoundError")
    /\ UNCHANGED model_inputs
    /\ UNCHANGED << workflow_vars, retry_vars, upscale_vars, pixel_vars >>
    /\ UNCHANGED << resize_vars, store_vars >>

\* VerifyPhase.run
verify_run ==
    /\ admitted("verify")
    /\ IF ~ check_required_files("verify")
       THEN phase_raises("verify", "FileNotFoundError")
       ELSE IF \E n \in png_files(OUTPUT_REATTACH_DIR) :
                  has_pink_halos(fs[OUTPUT_REATTACH_DIR].files[n],
                                 DefaultTolerance)
       THEN phase_raises("verify", "RuntimeError")
       ELSE /\ state' = StateSet(state, "verify", Completed)
            /\ phase_result' = [ phase_result EXCEPT !["verify"] = Completed ]
            /\ UNCHANGED << fs, written >>
    /\ UNCHANGED model_inputs
    /\ UNCHANGED << workflow_vars, retry_vars, upscale_vars, pixel_vars >>
    /\ UNCHANGED << resize_vars, store_vars >>

\* ScrubPhase.run
scrub_run ==
    /\ stage_run("scrub", SCRUB_DIR,
                 [ n \in png_files(OUTPUT_REATTACH_DIR) |->
                     scrubbed(fs[OUTPUT_REATTACH_DIR].files[n],
                              DefaultTolerance) ])

\* the state file records a leading part of PHASE_ORDER that holds convert
ChainStates == { st \in LoadableStates : "convert" \in DOMAIN st }

ChainInit ==
    /\ state \in ChainStates
    /\ IdleWorkflow
    /\ IdleRetry
    /\ IdleUpscale
    /\ IdlePixel
    /\ IdleResize
    /\ IdleStore
    /\ \E conv \in ConvertOutputs :
          fs = [ d \in StageDirs |-> IF d = CONVERT_DIR THEN conv ELSE Missing ]
    /\ model_inputs = {}
    /\ written = [ p \in Range(PHASE_ORDER) |-> {} ]
    /\ phase_result = [ p \in Range(PHASE_ORDER) |-> "none" ]

ChainNext ==
    \/ premultiply_run
    \/ extract_alpha_run
    \/ upscale_alpha_run
    \/ upscale_run
    \/ reattach_alpha_run
    \/ verify_run
    \/ scrub_run

ChainSpec == ChainInit /\ [][ChainNext]_vars

\* C17: every colour raster that the RGB upscale stage hands to the external
\* enhancement model is a premultiplied texture produced by the Premultiply
\* stage, so every pixel with alpha = 0 reaches the model with RGB (0,0,0),
\* and Premultiply has completed before any colour upscaling starts.
C17_ModelReceivesPremultipliedTextures ==
    /\ \A m \in model_inputs :
          /\ m.dir = PREMULTIPLY_DIR
          /\ \A i \in 1..Len(m.raster.pixels) :
                m.raster.pixels[i].a = 0
                => /\ m.raster.pixels[i].r = 0
                   /\ m.raster.pixels[i].g = 0
                   /\ m.raster.pixels[i].b = 0
    /\ model_inputs # {}
       => StateGet(state, "premultiply", "not_run") = Completed

\* the producer/consumer pairs of the chain
ChainPairs ==
    { << "premultiply", "extract_alpha" >>,
      << "extract_alpha", "upscale_alpha" >>,
      << "upscale", "reattach_alpha" >>,
      << "upscale_alpha", "reattach_alpha" >>,
      << "reattach_alpha", "verify" >>,
      << "reattach_alpha", "scrub" >> }

\* C18: for every producer/consumer pair of chain stages the directory the
\* consumer reads is exactly the directory the producer writes: a consumer
\* that has run has looked into the producer's directory, every file a
\* producer has written lies in a directory its consumer reads, and after a
\* producer has completed with files written the consumer's required-input
\* check of that directory passes.
C18_ConsumerReadsProducersDirectory ==
    \A pair \in ChainPairs :
        /\ phase_result[pair[2]] # "none"
           => WriteDirs(pair[1]) \subseteq ReadDirs(pair[2])
        /\ \A w \in written[pair[1]] : w[1] \in ReadDirs(pair[2])
        /\ ( phase_result[pair[1]] = Completed /\ written[pair[1]] # {} )
           => \E d \in ReadDirs(pair[2]) \cap WriteDirs(pair[1]) :
                  required_dir_ready(d)

(***************************************************************************)
(* Frame of reset_phase.                                                   *)
(***************************************************************************)
\* The record a reset of phase p must leave behind: p's entry gone, every
\* other entry as it was.
WithoutEntry(st, p) == [ k \in DOMAIN st \ {p} |-> st[k] ]

\* C29: reset_phase(p) removes p's entry and nothing else: every other phase
\* keeps its entry and status, so every phase that does not depend directly on
\* p has the same missing dependencies as before (its dependents stay
\* "completed", and a phase whose direct dependencies are completed is still
\* admitted although a transitive prerequisite was reset); resetting a phase
\* that has no entry leaves the record as it is.
C29_ResetRemovesOnlyItsEntry ==
    [][ \A p \in ResetTargets :
          reset_phase(p) =>
            /\ state' = WithoutEntry(state, p)
            /\ p \notin DOMAIN state => state' = state
            /\ \A q \in Range(PHASE_ORDER) \ {p} :
                 /\ q \in DOMAIN state =>
                      q \in DOMAIN state' /\ state'[q] = state[q]
                 /\ p \notin Range(PHASE_DEPENDENCIES[q]) =>
                      missing_deps(q, state') = missing_deps(q, state) ]_vars

\* game_files has been reset in a record where every phase was completed:
\* its dependents are still completed and convert, whose only direct
\* dependency is extract, is still admitted.
C29_Witness ==
    /\ outcome.kind = "reset"
    /\ "game_files" \notin DOMAIN state
    /\ \A q \in Range(PHASE_ORDER) \ { "game_files" } :
         q \in DOMAIN state /\ state[q] = Completed
    /\ missing_deps("convert", state) = << >>
    /\ missing_deps("extract", state) # << >>

(***************************************************************************)
(* The verification gate before packaging.                                 *)
(***************************************************************************)
\* This step hands phase p to _run_single_phase.
Executes(p) == Len(ran') = Len(ran) + 1 /\ ran'[Len(ran')] = p

\* C22: generate_mod is never executed while verify lacks the status
\* "completed": whatever run_phases calls and resets came before, a step that
\* hands generate_mod to _run_single_phase finds verify recorded "completed"
\* (so a verify recorded "failed: ..." or reset blocks packaging).
C22_GenerateModWaitsForVerify ==
    [][ Executes("generate_mod")
          => StateGet(state, "verify", "absent") = Completed ]_vars

(***************************************************************************)
(* Well-formedness of the declared phase graph.                            *)
(***************************************************************************)
\* The phases p depends on directly.
DirectDeps(p) == Range(PHASE_DEPENDENCIES[p])

\* The phases reached from the set S by following at most n more dependency
\* edges.
RECURSIVE DepsWithin(_, _)
DepsWithin(S, n) ==
    IF n = 0 THEN S
    ELSE DepsWithin(S \cup UNION { DirectDeps(q) : q \in S }, n - 1)

\* Every direct or transitive dependency of p.
AllDeps(p) == DepsWithin(DirectDeps(p), Len(PHASE_ORDER))

\* C27: the declared phase graph is well-formed: PHASE_ORDER names eleven
\* distinct phases, PHASE_DEPENDENCIES has an entry for each of them and names
\* only declared phases, no phase is among its own (transitive) dependencies,
\* and PHASE_ORDER lists every phase after all of its dependencies; this holds
\* of every declared phase and of every phase a state record mentions.
C27_PhaseGraphWellFormed ==
    /\ Len(PHASE_ORDER) = 11
    /\ Cardinality(Range(PHASE_ORDER)) = Len(PHASE_ORDER)
    /\ DOMAIN PHASE_DEPENDENCIES = Range(PHASE_ORDER)
    /\ \A p \in Range(PHASE_ORDER) \cup DOMAIN state :
         /\ p \in Range(PHASE_ORDER)
         /\ DirectDeps(p) \subseteq Range(PHASE_ORDER)
         /\ p \notin AllDeps(p)
         /\ \A d \in AllDeps(p) : Ord(d) < Ord(p)

\* A dry run of the default request has walked the whole graph: the eleven
\* phases were executed in PHASE_ORDER, each admitted after its dependencies.
C27_Witness ==
    /\ CallEnded
    /\ outcome.kind = "returned"
    /\ dry_run
    /\ ran = PHASE_ORDER
    /\ AllCompleted(state)

\* C30: for every value of max_attempts, a call through retry_on_exception
\* invokes the wrapped operation at least once and at most max_attempts
\* times, and when it returns normally the value is one the operation itself
\* returned.
C30_InvokedBetweenOnceAndMaxAttempts ==
    /\ Len(invocations) <= retry_args.max_attempts
    /\ WrapperDone
       => /\ Len(invocations) >= 1
          /\ wrapper.kind = "returned"
             => \E i \in 1..Len(invocations) :
                   /\ invocations[i].kind = "returned"
                   /\ invocations[i].value = wrapper.value

\* the stages of the chain that start with a required-input check
CheckedStages ==
    { "premultiply", "extract_alpha", "upscale_alpha", "upscale",
      "reattach_alpha", "verify", "scrub" }

\* This step is a run of stage p that found its input missing or empty.
RunsWithoutInput(p) ==
    /\ ~ check_required_files(p)
    /\ phase_result'[p] # phase_result[p]

\* C23: a chain stage whose input directory is missing or empty fails with a
\* ResourceError, before it has written any output file and without being
\* marked "completed".
C23_MissingInputRaisesResourceError ==
    [][ \A p \in CheckedStages :
          RunsWithoutInput(p)
          => /\ phase_result'[p] = "ResourceError"
             /\ fs' = fs
             /\ written' = written
             /\ state' = state ]_vars

\* This step is a run of the colour-upscale stage over at least one .png file.
UpscaleRunsOverFiles ==
    /\ check_required_files("upscale")
    /\ png_files(CONVERT_DIR) # {}
    /\ phase_result'["upscale"] # phase_result["upscale"]

\* After the step, file n has been dealt with: handed to the model, or its
\* output is there.
ProcessedAfter(n) ==
    \/ \E m \in model_inputs' : m.name = n
    \/ fs'[UPSCALE_DIR].exists /\ n \in DOMAIN fs'[UPSCALE_DIR].files

\* After the step, the output of file n exists.
SucceededAfter(n) ==
    fs'[UPSCALE_DIR].exists /\ n \in DOMAIN fs'[UPSCALE_DIR].files

\* C26: in the colour-upscale stage a failure on one file does not stop the
\* others: after a run every .png file of the input directory has been
\* processed, and the run fails if and only if no file succeeded.
C26_FileFailuresAreIsolated ==
    [][ UpscaleRunsOverFiles
          => /\ \A n \in png_files(CONVERT_DIR) : ProcessedAfter(n)
             /\ phase_result'["upscale"] # Completed
                <=> ~ \E n \in png_files(CONVERT_DIR) : SucceededAfter(n) ]_vars

(***************************************************************************)
(* The sizes of the alpha path: _upscale_alpha_image and                   *)
(* _combine_rgb_alpha applied to rasters of several sizes.                 *)
(***************************************************************************)
\* the longest side of the rasters explored
MaxSide == 2

\* the values of upscale.scale explored
Scales == { 1, 2, DefaultScale }

Sides == 1..MaxSide

\* an alpha raster (mode "L") of one grey level
AlphaRaster(w, h, v) ==
    Raster("L", w, h, [ i \in 1..(w * h) |-> Pixel(v, v, v, MaxChannel) ])

\* a colour raster (mode "RGB") of one colour
ColourRaster(w, h) ==
    Raster("RGB", w, h, [ i \in 1..(w * h) |-> Pixel(200, 100, 50, MaxChannel) ])

\* UpscaleAlphaPhase._upscale_alpha_image on alpha_src
alpha_upscale_file ==
    /\ alpha_src # NoImage
    /\ alpha_up = NoImage
    /\ alpha_up' = upscale_alpha_image(alpha_src, scale)
    /\ UNCHANGED << scale, alpha_src, rgb_src, rgba_out >>
    /\ UNCHANGED << state, workflow_vars, retry_vars, upscale_vars,
                    pixel_vars, chain_vars, store_vars >>

\* ReattachAlphaPhase._combine_rgb_alpha on rgb_src and the upscaled alpha
reattach_file ==
    /\ alpha_up # NoImage
    /\ rgba_out = NoImage
    /\ rgba_out' = combined(rgb_src, alpha_up)
    /\ UNCHANGED << scale, alpha_src, alpha_up, rgb_src >>
    /\ UNCHANGED << state, workflow_vars, retry_vars, upscale_vars,
                    pixel_vars, chain_vars, store_vars >>

\* The colour raster is the texture upscaled by the same factor, or has some
\* other size.
ResizeInit ==
    /\ state = EmptyState
    /\ IdleWorkflow
    /\ IdleRetry
    /\ IdleUpscale
    /\ IdlePixel
    /\ IdleChain
    /\ IdleStore
    /\ scale \in Scales
    /\ \E w \in Sides, h \in Sides, v \in { 0, 128, MaxChannel } :
          /\ alpha_src = AlphaRaster(w, h, v)
          /\ \E size \in { << scale * w, scale * h >> } \cup (Sides \X Sides) :
                rgb_src = ColourRaster(size[1], size[2])
    /\ alpha_up = NoImage
    /\ rgba_out = NoImage

ResizeNext == alpha_upscale_file \/ reattach_file

ResizeSpec == ResizeInit /\ [][ResizeNext]_vars

\* C21: AlphaUpscale turns an alpha raster of W by H into one of exactly
\* scale*W by scale*H; Recombine uses the alpha raster as it is when its size
\* is the colour raster's and otherwise resizes it to the colour raster's
\* size, so the recombined RGBA raster always has the colour raster's
\* dimensions (and its colours).
C21_AlphaPathSizes ==
    /\ alpha_up # NoImage
       => /\ alpha_up.size =
                << scale * alpha_src.size[1], scale * alpha_src.size[2] >>
          /\ Len(alpha_up.pixels) = alpha_up.size[1] * alpha_up.size[2]
    /\ rgba_out # NoImage
       => /\ rgba_out.size = rgb_src.size
          /\ Len(rgba_out.pixels) = rgb_src.size[1] * rgb_src.size[2]
          /\ LET al == IF alpha_up.size = rgb_src.size
                       THEN alpha_up
                       ELSE resized(alpha_up, rgb_src.size[1], rgb_src.size[2])
             IN  \A i \in 1..Len(rgba_out.pixels) :
                    /\ rgba_out.pixels[i].a = al.pixels[i].r
                    /\ rgba_out.pixels[i].r = rgb_src.pixels[i].r
                    /\ rgba_out.pixels[i].g = rgb_src.pixels[i].g
                    /\ rgba_out.pixels[i].b = rgb_src.pixels[i].b

\* An alpha raster was upscaled by a factor above 1 and recombined with a
\* colour raster of another size.
C21_Witness ==
    /\ scale > 1
    /\ rgba_out # NoImage
    /\ alpha_up.size # rgb_src.size
    /\ alpha_up.size # alpha_src.size

(***************************************************************************)
(* PipelineState over its state file: the processes that hold a            *)
(* PipelineState each with its own self.state, and the one file they save  *)
(* to.                                                                     *)
(***************************************************************************)
\* PipelineState operations per behaviour
MaxOps == 4

\* the pipeline processes that may run over one state file
Procs == { 1, 2 }

\* the keys and the value the processes store
StoreKeys == { "convert", "upscale" }

StoreMappings ==
    UNION { [ ks -> { Completed } ] : ks \in SUBSET StoreKeys }

\* the file holds the JSON text of mapping m
JsonRecord(m) == [ kind |-> "json", value |-> m ]

\* the file exists and does not hold a JSON document: open(..., "w") has
\* truncated it and the text was not written to the end
CorruptRecord == [ kind |-> "corrupt", value |-> EmptyState ]

\* load(), called by __init__ after self.state = {}: the mapping of the
\* file; {} when there is no file or json.load raises
loaded(rec) == IF rec.kind = "json" THEN rec.value ELSE EmptyState

\* How a save() can go: the file is rewritten; open() raises and the
\* exception is logged; the process is killed after open() truncated the
\* file.
SaveOutcomes == { "saved", "open_fails", "killed" }

\* A save that adds the mapping to what the file holds.
saved_record_merging(rec, m, how) ==
    CASE how = "saved" ->
           JsonRecord([ k \in DOMAIN loaded(rec) \cup DOMAIN m |->
                          IF k \in DOMAIN m THEN m[k] ELSE loaded(rec)[k] ])
      [] how = "open_fails" -> rec
      [] OTHER -> CorruptRecord

\* the file after save() of mapping m
saved_record(rec, m, how) ==
    CASE how = "saved" -> JsonRecord(m)
      [] how = "open_fails" -> rec
      [] OTHER -> CorruptRecord

\* PipelineState(state_file) in a new process p
start(p) ==
    /\ nops < MaxOps
    /\ proc[p] \in { "unstarted", "dead" }
    /\ proc' = [ proc EXCEPT ![p] = "running" ]
    /\ memory' = [ memory EXCEPT ![p] = loaded(record) ]
    /\ store_op' = [ proc |-> p, op |-> "load", key |-> "None",
                     save |-> "none", result |-> "returned" ]
    /\ nops' = nops + 1
    /\ UNCHANGED << record, persisted >>
    /\ UNCHANGED << state, workflow_vars, retry_vars, upscale_vars,
                    pixel_vars, chain_vars, resize_vars >>

\* a mutation of process p: self.state becomes m, then self.save()
mutate(p, op, key, m, how) ==
    /\ nops < MaxOps
    /\ proc[p] = "running"
    /\ memory' = [ memory EXCEPT ![p] = m ]
    /\ record' = saved_record(record, m, how)
    /\ proc' = [ proc EXCEPT ![p] = IF how = "killed" THEN "dead" ELSE @ ]
    /\ store_op' = [ proc |-> p, op |-> op, key |-> key, save |-> how,
                     result |-> IF how = "killed" THEN "killed"
                                ELSE "returned" ]
    /\ persisted' = IF how = "saved" /\ op = "set"
                    THEN persisted \cup { << p, key >> }
                    ELSE persisted
    /\ nops' = nops + 1
    /\ UNCHANGED << state, workflow_vars, retry_vars, upscale_vars,
                    pixel_vars, chain_vars, resize_vars >>

\* PipelineState.__setitem__
setitem ==
    /\ \E p \in Procs, key \in StoreKeys, how \in SaveOutcomes :
          mutate(p, "set", key, StateSet(memory[p], key, Completed), how)

\* PipelineState.__delitem__: del self.state[key] raises KeyError when the
\* key is not there, before any save
delitem ==
    /\ \E p \in Procs, key \in StoreKeys, how \in SaveOutcomes :
          IF key \in DOMAIN memory[p]
          THEN mutate(p, "del", key, StateDel(memory[p], key), how)
          ELSE /\ nops < MaxOps
               /\ proc[p] = "running"
               /\ store_op' = [ proc |-> p, op |-> "del", key |-> key,
                                save |-> "none", result |-> "raised" ]
               /\ nops' = nops + 1
               /\ UNCHANGED << record, memory, proc, persisted >>
               /\ UNCHANGED << state, workflow_vars, retry_vars,
                               upscale_vars, pixel_vars, chain_vars,
                               resize_vars >>

\* PipelineState.clear
clear ==
    /\ \E p \in Procs, how \in SaveOutcomes :
          mutate(p, "clear", "None", EmptyState, how)

\* process p is interrupted or crashes between two operations
crash ==
    /\ \E p \in Procs :
          /\ nops < MaxOps
          /\ proc[p] = "running"
          /\ proc' = [ proc EXCEPT ![p] = "dead" ]
          /\ store_op' = [ proc |-> p, op |-> "none", key |-> "None",
                           save |-> "none", result |-> "killed" ]
          /\ nops' = nops + 1
          /\ UNCHANGED << record, memory, persisted >>
    /\ UNCHANGED << state, workflow_vars, retry_vars, upscale_vars,
                    pixel_vars, chain_vars, resize_vars >>

\* No process has started; the file is absent or holds what an earlier run
\* recorded.
StoreInit ==
    /\ state = EmptyState
    /\ IdleWorkflow
    /\ IdleRetry
    /\ IdleUpscale
    /\ IdlePixel
    /\ IdleChain
    /\ IdleResize
    /\ record \in { AbsentRecord } \cup { JsonRecord(m) : m \in StoreMappings }
    /\ memory = [ p \in Procs |-> EmptyState ]
    /\ proc = [ p \in Procs |-> "unstarted" ]
    /\ store_op = NoStoreOp
    /\ persisted = {}
    /\ nops = 0

StoreNext ==
    \/ \E p \in Procs : start(p)
    \/ setitem
    \/ delitem
    \/ clear
    \/ crash

StoreSpec == StoreInit /\ [][StoreNext]_vars

\* This step is a mutation (set, delete or clear) that returned normally.
MutationReturns ==
    /\ nops' = nops + 1
    /\ store_op'.op \in { "set", "del", "clear" }
    /\ store_op'.result = "returned"

\* C24: after every PipelineState mutation (set, delete, clear) that returns
\* normally the state file holds exactly the in-memory mapping of the process
\* that made it: no mutation is held back or batched.
C24_RecordEqualsMemoryAfterMutation ==
    [][ MutationReturns
          => record' = JsonRecord(memory'[store_op'.proc]) ]_vars

\* In this step process p dies, between two operations or inside a save,
\* and the step is not a deletion of key k or a clear.
DiesKeeping(p, k) ==
    /\ proc[p] = "running"
    /\ proc'[p] = "dead"
    /\ ~ ( store_op'.op = "del" /\ store_op'.key = k )
    /\ store_op'.op # "clear"

\* C25: once a phase is recorded "completed" on file, an interruption or a
\* crash of the process at any later point, the middle of a later write of
\* the file included, leaves a file from which a new process loads that phase
\* as "completed", so that the new process skips it under skip_completed.
C25_CompletedSurvivesCrash ==
    [][ \A p \in Procs, k \in StoreKeys :
          ( DiesKeeping(p, k)
            /\ StateGet(loaded(record), k, "absent") = Completed )
          => /\ StateGet(loaded(record'), k, "absent") = Completed
             /\ should_skip(k, TRUE, loaded(record')) ]_vars

\* In this step process q saves its mapping and the file is rewritten.
Saves(q) ==
    /\ MutationReturns
    /\ store_op'.proc = q
    /\ store_op'.save = "saved"

\* C28: with two processes over one state file, each holding the copy it
\* loaded when it started, a status one process has written can be lost: a
\* save replaces the file by the saving process's own mapping, so every entry
\* of the file that this mapping does not hold is gone after the save,
\* whoever wrote it.
C28_SaveReplacesRecordWithOwnCopy ==
    [][ \A q \in Procs :
          Saves(q)
          => /\ record' = JsonRecord(memory'[q])
             /\ \A k \in DOMAIN loaded(record) :
                  k \notin DOMAIN memory'[q]
                  => k \notin DOMAIN loaded(record') ]_vars

\* Process 1 has put an entry on file, process 2 has then saved another
\* key, and the file no longer holds process 1's entry, which process 1
\* still has in memory.
C28_Witness ==
    \E k \in StoreKeys :
        /\ << 1, k >> \in persisted
        /\ proc[1] = "running"
        /\ proc[2] = "running"
        /\ memory[1][k] = Completed
        /\ store_op.proc = 2
        /\ store_op.op = "set"
        /\ store_op.key # k
        /\ store_op.save = "saved"
        /\ record.kind = "json"
        /\ k \notin DOMAIN record.value

====
